---- MODULE Spec2Model ----
(***************************************************************************)
(* Collection (src/src/04_core/Collection.js) of GAS-DB: the lazy load,    *)
(* the MongoDB-style calls, the metadata bump and its publication to the   *)
(* master index, dirty tracking and save(); two Collection instances over  *)
(* one Drive file and one master index entry.                              *)
(*                                                                         *)
(* Every public call is one action: a call is synchronous, and the only    *)
(* backend operations it makes are one file read (lazy load), one master   *)
(* index update, or one file write.  lastCall records, in the order of     *)
(* the statements of the code, what the last call did.                     *)
(***************************************************************************)
EXTENDS Integers, Sequences, FiniteSets, TLC

\* ---- bounds ----
\* the clock stops at MaxClock
MaxClock == 1

\* the Collection instances over the one file
Instances == {"A", "B"}
\* the _id strings documents are stored under
Ids == {"a", "b"}
\* the numbers the field n of a document takes
Vals == {0, 1}
\* a value of the field n that is not a number (a string)
NotANumber == 0 - 2
\* a document given to insertOne without an _id
NoId == "<absent>"
\* an _id that is not a non-empty string
BadId == ""

VARIABLES
  loaded,       \* this._loaded, per instance
  dirty,        \* this._dirty, per instance
  documents,    \* this._documents, per instance: the entries in key order
  metadata,     \* this._collectionMetadata, per instance
  blob,         \* the content of the Drive file behind FileService
  masterIndex,  \* the entry of this collection in the master index
  now,          \* the clock read by CollectionMetadata.updateLastModified
  stale,        \* per instance: the file was written by another instance
                \* after this instance last read or wrote it
  lastCall,     \* the call that has just returned: instance, method, arguments,
                \* outcome, the steps it made in order, and its result
  locks,        \* the locks of the master index: per collection name, the entry
                \* {operationId, acquiredAt, expiresAt} or none
  granted       \* the acquisitions that succeeded and were not released since:
                \* collection name, operationId and the expiry the holder was given

vars ==
  <<loaded, dirty, documents, metadata, blob, masterIndex, now, stale, lastCall,
    locks, granted>>

\* ---- values ----
Range(s) == {s[k] : k \in 1..Len(s)}

Before(s, x, y) == \E j, k \in 1..Len(s) : j < k /\ s[j] = x /\ s[k] = y

\* this._collectionMetadata = null (constructor)
NullMetadata == [isNull |-> TRUE]

Entry(id, d) == [key |-> id, doc |-> d]

Doc(id, n) == [_id |-> id, n |-> n]

\* Object.keys(this._documents)
Keys(docs) == {docs[k].key : k \in 1..Len(docs)}

HasKey(docs, id) == id \in Keys(docs)

IndexOf(docs, id) == CHOOSE k \in 1..Len(docs) : docs[k].key = id

\* the documents in key order (Object.values)
Values(docs) == [k \in 1..Len(docs) |-> docs[k].doc]

\* delete this._documents[id]
RemoveKey(docs, id) == SelectSeq(docs, LAMBDA e : e.key # id)

\* this._documents[id] = d (an existing key keeps its position)
PutKey(docs, id, d) ==
  IF HasKey(docs, id)
    THEN [docs EXCEPT ![IndexOf(docs, id)] = Entry(id, d)]
    ELSE Append(docs, Entry(id, d))

\* the state of one Collection instance
CState(i) ==
  [loaded |-> loaded[i], dirty |-> dirty[i],
   documents |-> documents[i], metadata |-> metadata[i]]

\* ---- arguments of the calls ----
\* a filter argument: null, {}, {_id: x}, {n: v}, or a string id
Filter(kind, id, n) == [kind |-> kind, id |-> id, n |-> n]

Filters ==
  {Filter("null", NoId, 0), Filter("empty", NoId, 0)}
    \cup {Filter("id", x, 0) : x \in Ids \cup {BadId}}
    \cup {Filter("field", NoId, v) : v \in Vals}

\* filters that put a field-operator object on _id: {_id: {$ne: "a"}}, alone
\* or together with another key, {_id: {$ne: "a"}, n: v}
IdOperatorKinds == {"idNe", "idNeField"}

IdOperatorFilters ==
  {Filter("idNe", NoId, 0)} \cup {Filter("idNeField", NoId, v) : v \in Vals}

\* filterOrId of updateOne and replaceOne: a filter or a string
FiltersOrIds == Filters \cup {Filter("string", x, 0) : x \in Ids}

\* an update argument: null, {}, {$set: {n: v}, n: v}, {$set: {n: v}},
\* {$inc: {n: v}}, or a plain document {n: v} / {_id: x, n: v}
Update(kind, op, id, n) == [kind |-> kind, op |-> op, id |-> id, n |-> n]

Updates ==
  {Update("null", "", NoId, 0), Update("emptyobj", "", NoId, 0),
   Update("mixed", "$set", NoId, 0)}
    \cup {Update("ops", "$set", NoId, v) : v \in Vals}
    \cup {Update("ops", "$inc", NoId, 1)}
    \cup {Update("plain", "", x, v) : x \in Ids \cup {NoId}, v \in Vals}

\* the update arguments drawn for updateMany: every operator update, and one
\* of each kind it rejects
UpdateManyUpdates ==
  {u \in Updates : u.kind # "plain"} \cup {Update("plain", "", NoId, 0)}

\* the doc arguments drawn for replaceOne: every plain document, and one of
\* each kind it rejects
Replacements ==
  {u \in Updates : u.kind # "ops"} \cup {Update("ops", "$set", NoId, 0)}

\* a document argument of insertOne: null, or {n: v} with or without _id
DocArg(kind, id, n) == [kind |-> kind, id |-> id, n |-> n]

DocArgs ==
  {DocArg("null", NoId, 0)}
    \cup {DocArg("object", x, v) : x \in Ids \cup {NoId, BadId}, v \in Vals}

\* what MasterIndex.updateCollectionMetadata can end with
PublishOutcomes == {"ok", "LockTimeout", "BackendUnavailable"}

\* ---- Validate ----
\* Validate.object(value, name, allowEmpty = false)
ValidateObjectNonEmpty(u) == u.kind \notin {"null", "emptyobj"}

\* Validate.validateUpdateObject(update, name, options)
ValidateUpdateObject(u, option) ==
  /\ u.kind # "mixed"
  /\ option = "requireOperators" => u.kind = "ops"
  /\ option = "forbidOperators" => u.kind = "plain"

\* Object.keys(update).some(key => key.startsWith("$"))
HasOperators(u) == u.kind \in {"ops", "mixed"}

\* Collection._validateFilter
\* Validate.nonEmptyString(filter._id) throws for an _id that is an object
ValidateFilter(f) ==
  /\ f.kind # "null"
  /\ f.kind = "id" => f.id # BadId
  /\ f.kind \notin IdOperatorKinds

\* typeof filterOrId === "string" ? {_id: filterOrId} : filterOrId
NormaliseFilter(f) == IF f.kind = "string" THEN Filter("id", f.id, 0) ELSE f

\* filterKeys.length === 1 && filterKeys[0] === "_id"
IsIdFilter(f) == f.kind \in {"id", "idNe"}

\* ---- QueryEngine, UpdateEngine ----
\* QueryEngine.matches that does not compare the _id field
Matches_IgnoresId(d, f) ==
  CASE f.kind \in {"empty", "id"} -> TRUE
    [] f.kind = "field" -> d.n = f.n
    [] OTHER -> FALSE

\* QueryEngine.matches(document, filter)
Matches(d, f) ==
  CASE f.kind = "empty" -> TRUE
    [] f.kind = "id" -> d._id = f.id
    [] f.kind = "field" -> d.n = f.n
    [] f.kind = "idNe" -> d._id # "a"
    [] f.kind = "idNeField" -> d._id # "a" /\ d.n = f.n
    [] OTHER -> FALSE

\* UpdateEngine.apply(document, update): a new document
ApplyOperators(d, u) ==
  CASE u.op = "$set" -> [d EXCEPT !.n = u.n]
    [] u.op = "$inc" -> [d EXCEPT !.n = d.n + u.n]
    [] OTHER -> d

\* ---- DocumentOperations, on the documents map of its collection ----
\* findAllDocuments()
FindAllDocuments(docs) == Values(docs)

\* findMultipleByQuery(filter)
FindMultipleByQuery(docs, f) == SelectSeq(Values(docs), LAMBDA d : Matches(d, f))

\* findByQuery(filter): <<>> for null, else the first match
FindByQuery(docs, f) ==
  IF FindMultipleByQuery(docs, f) = <<>> THEN <<>>
  ELSE <<Head(FindMultipleByQuery(docs, f))>>

\* findDocumentById(id): <<>> for null
FindDocumentById(docs, id) ==
  IF HasKey(docs, id) THEN <<docs[IndexOf(docs, id)].doc>> ELSE <<>>

\* insertDocument(doc); genId is the id IdGenerator gives a document without _id
InsertDocument(docs, doc, genId) ==
  LET id == IF doc.id = NoId THEN genId ELSE doc.id IN
  IF doc.kind # "object" \/ doc.id = BadId
    THEN [outcome |-> "InvalidArgument", docs |-> docs, id |-> NoId]
  ELSE IF HasKey(docs, id)
    THEN [outcome |-> "DuplicateKey", docs |-> docs, id |-> NoId]
  ELSE [outcome |-> "ok", docs |-> PutKey(docs, id, Doc(id, doc.n)), id |-> id]

\* replaceDocument storing the replacement as given, with the _id it names
ReplaceDocument_KeepsArgumentId(docs, id, u) ==
  IF ~HasKey(docs, id)
    THEN [outcome |-> "ok", docs |-> docs, modifiedCount |-> 0]
  ELSE [outcome |-> "ok",
        docs |-> PutKey(docs, id, Doc(IF u.id # NoId THEN u.id ELSE id, u.n)),
        modifiedCount |-> 1]

\* replaceDocument(id, doc): the replacement keeps the _id of the target
ReplaceDocument(docs, id, u) ==
  IF ~HasKey(docs, id)
    THEN [outcome |-> "ok", docs |-> docs, modifiedCount |-> 0]
  ELSE IF u.id # NoId /\ u.id # id
    THEN [outcome |-> "InvalidArgument", docs |-> docs, modifiedCount |-> 0]
  ELSE [outcome |-> "ok", docs |-> PutKey(docs, id, Doc(id, u.n)),
        modifiedCount |-> IF docs[IndexOf(docs, id)].doc = Doc(id, u.n) THEN 0 ELSE 1]

\* updateDocument that stores the replacement under the _id it names
UpdateDocument_MovesToArgumentId(docs, id, u) ==
  IF ~HasKey(docs, id)
    THEN [outcome |-> "ok", docs |-> docs, modifiedCount |-> 0]
  ELSE IF u.id # NoId /\ u.id # id
    THEN [outcome |-> "ok", docs |-> PutKey(RemoveKey(docs, id), u.id, Doc(u.id, u.n)),
          modifiedCount |-> 1]
  ELSE ReplaceDocument(docs, id, u)

\* updateDocument(id, updateData): replacement through updateOne
UpdateDocument(docs, id, u) == ReplaceDocument(docs, id, u)

\* updateDocumentWithOperators(id, updateOps); UpdateEngine throws
\* InvalidUpdate for $inc on a field that holds no number
UpdateDocumentWithOperators(docs, id, u) ==
  IF ~HasKey(docs, id)
    THEN [outcome |-> "ok", docs |-> docs, modifiedCount |-> 0]
  ELSE IF u.op = "$inc" /\ docs[IndexOf(docs, id)].doc.n = NotANumber
    THEN [outcome |-> "InvalidUpdate", docs |-> docs, modifiedCount |-> 0]
  ELSE LET old == docs[IndexOf(docs, id)].doc
           new == ApplyOperators(old, u) IN
       [outcome |-> "ok", docs |-> PutKey(docs, id, new),
        modifiedCount |-> IF new = old THEN 0 ELSE 1]

\* deleteDocument(id)
DeleteDocument(docs, id) ==
  [docs |-> RemoveKey(docs, id), deletedCount |-> IF HasKey(docs, id) THEN 1 ELSE 0]

\* ---- Collection: private helpers ----
\* changes.documentCount === undefined
Undefined == 0 - 1

\* what a call returns; the fields a method does not return keep these values
NoResult ==
  [matchedCount |-> Undefined, modifiedCount |-> Undefined, deletedCount |-> Undefined,
   insertedId |-> NoId, returned |-> <<>>, count |-> Undefined]

\* the effect of a call: the instance, the master index entry, the file,
\* how the call ended, the steps it made in order, and what it returned
Effect(c, mi, data, outcome, events, result) ==
  [c |-> c, mi |-> mi, blob |-> data, outcome |-> outcome, events |-> events,
   result |-> result]

\* a file whose content is a JSON array: readFile returns an array, for which
\* typeof data is "object", so the structure check of _loadData lets it pass
ArrayBlob == [isArray |-> TRUE]

\* data.documents || {}
DocumentsOf(data) == IF data = ArrayBlob THEN <<>> ELSE data.documents

\* new CollectionMetadata(name, fileId, data.metadata || {})
MetadataOf(data) ==
  IF data = ArrayBlob
    THEN [documentCount |-> 0, lastUpdated |-> 0, modificationToken |-> 0]
    ELSE data.metadata

\* Collection._loadData: readOk is whether FileService.readFile returns a
\* value that passes (!data || typeof data !== "object"); it is false when
\* readFile throws or returns null or a scalar
LoadData(c, data, readOk) ==
  IF readOk
    THEN [c EXCEPT !.documents = DocumentsOf(data), !.metadata = MetadataOf(data)]
    ELSE c

\* _ensureLoaded that loads on every call, whatever this._loaded is
EnsureLoaded_EveryCall(c, data, readOk) ==
  IF readOk
    THEN [c |-> [LoadData(c, data, readOk) EXCEPT !.loaded = TRUE], ok |-> TRUE,
          events |-> <<"read">>]
  ELSE [c |-> c, ok |-> FALSE, events |-> <<"read">>]

\* Collection._ensureLoaded
EnsureLoaded(c, data, readOk) ==
  IF c.loaded THEN [c |-> c, ok |-> TRUE, events |-> <<>>]
  ELSE IF readOk
    THEN [c |-> [LoadData(c, data, readOk) EXCEPT !.loaded = TRUE], ok |-> TRUE,
          events |-> <<"read">>]
  ELSE [c |-> c, ok |-> FALSE, events |-> <<"read">>]

\* _markDirty that leaves this._dirty as it is
MarkDirty_Forgets(c) == c

\* Collection._markDirty
MarkDirty(c) == [c EXCEPT !.dirty = TRUE]

\* _updateMetadata that drops changes.documentCount
SetDocumentCount_Dropped(md, changes) == md

\* CollectionMetadata.setDocumentCount, when changes.documentCount is given
SetDocumentCount(md, changes) ==
  IF changes # Undefined THEN [md EXCEPT !.documentCount = changes] ELSE md

\* CollectionMetadata.updateLastModified
UpdateLastModified(md, t) == [md EXCEPT !.lastUpdated = t]

\* MasterIndex.updateCollectionMetadata(name, metadata): under the script
\* lock, replaces the entry; pub is how it ends
UpdateCollectionMetadata(mi, md, pub) ==
  CASE pub = "ok" -> [mi |-> md, events |-> <<"lock", "publish", "unlock">>]
    [] pub = "LockTimeout" -> [mi |-> mi, events |-> <<>>]
    [] OTHER -> [mi |-> mi, events |-> <<"lock", "unlock">>]

\* _updateMetadata without this._collectionMetadata.updateLastModified()
UpdateMetadata_KeepsLastUpdated(c, changes, t, mi, pub) ==
  LET md == SetDocumentCount(c.metadata, changes)
      up == UpdateCollectionMetadata(mi, md, pub) IN
  [c |-> [c EXCEPT !.metadata = md], mi |-> up.mi, outcome |-> pub,
   events |-> <<"bump">> \o up.events]

\* Collection._updateMetadata(changes)
UpdateMetadata(c, changes, t, mi, pub) ==
  LET md == UpdateLastModified(SetDocumentCount(c.metadata, changes), t)
      up == UpdateCollectionMetadata(mi, md, pub) IN
  [c |-> [c EXCEPT !.metadata = md], mi |-> up.mi, outcome |-> pub,
   events |-> <<"bump">> \o up.events]

\* this._updateMetadata(changes); this._markDirty(); return result
\* c holds the documents as DocumentOperations left them
Commit(c, changes, t, mi, data, pub, events, result) ==
  LET um == UpdateMetadata(c, changes, t, mi, pub) IN
  IF um.outcome = "ok"
    THEN Effect(MarkDirty(um.c), um.mi, data, "ok",
                events \o um.events \o <<"markDirty">>, result)
    ELSE Effect(um.c, um.mi, data, um.outcome, events \o um.events, NoResult)

\* _saveData that writes the documents and leaves the metadata of the file
SaveData_DocumentsOnly(c, mi, data, writeOk) ==
  IF writeOk
    THEN Effect([c EXCEPT !.dirty = FALSE], mi,
                [documents |-> c.documents, metadata |-> data.metadata],
                "ok", <<"write">>, NoResult)
    ELSE Effect(c, mi, data, "OperationError", <<"write">>, NoResult)

\* _saveData that clears this._dirty before it calls writeFile
SaveData_ClearsDirtyFirst(c, mi, data, writeOk) ==
  IF writeOk
    THEN Effect([c EXCEPT !.dirty = FALSE], mi,
                [documents |-> c.documents, metadata |-> c.metadata],
                "ok", <<"write">>, NoResult)
    ELSE Effect([c EXCEPT !.dirty = FALSE], mi, data, "OperationError", <<"write">>,
                NoResult)

\* Collection._saveData: writeOk is whether FileService.writeFile returns
SaveData(c, mi, data, writeOk) ==
  IF writeOk
    THEN Effect([c EXCEPT !.dirty = FALSE], mi,
                [documents |-> c.documents, metadata |-> c.metadata],
                "ok", <<"write">>, NoResult)
    ELSE Effect(c, mi, data, "OperationError", <<"write">>, NoResult)

\* ---- Collection: public methods ----
\* each takes the instance c, the master index entry mi, the file content
\* data and the clock t, and gives the Effect of the call

\* the call ends in _ensureLoaded: the read failed
LoadFailed(c, mi, data, events) ==
  Effect(c, mi, data, "OperationError", events, NoResult)

\* a Validate or DocumentOperations check throws: c is the instance as loaded
Rejected(c, mi, data, outcome, events) ==
  Effect(c, mi, data, outcome, events \o <<"validate">>, NoResult)

\* insertOne that returns doc._id of its argument as insertedId
InsertOne_ReturnsArgumentId(c, mi, data, t, doc, genId, readOk, pub) ==
  LET ld == EnsureLoaded(c, data, readOk)
      ins == InsertDocument(ld.c.documents, doc, genId) IN
  IF ~ld.ok THEN LoadFailed(c, mi, data, ld.events)
  ELSE IF ins.outcome # "ok" THEN Rejected(ld.c, mi, data, ins.outcome, ld.events)
  ELSE Commit([ld.c EXCEPT !.documents = ins.docs], Len(ins.docs), t, mi, data, pub,
              ld.events \o <<"validate", "mutate">>,
              [NoResult EXCEPT !.insertedId = doc.id])

\* insertOne that bumps the metadata and marks dirty before it inserts
InsertOne_BumpsFirst(c, mi, data, t, doc, genId, readOk, pub) ==
  LET ld == EnsureLoaded(c, data, readOk)
      um == UpdateMetadata(ld.c, Len(ld.c.documents) + 1, t, mi, pub)
      ins == InsertDocument(ld.c.documents, doc, genId) IN
  IF ~ld.ok THEN LoadFailed(c, mi, data, ld.events)
  ELSE IF um.outcome # "ok"
    THEN Effect(um.c, um.mi, data, um.outcome, ld.events \o um.events, NoResult)
  ELSE IF ins.outcome # "ok"
    THEN Rejected(MarkDirty(um.c), um.mi, data, ins.outcome, ld.events \o um.events)
  ELSE Effect([MarkDirty(um.c) EXCEPT !.documents = ins.docs], um.mi, data, "ok",
              ld.events \o um.events \o <<"markDirty", "validate", "mutate">>,
              [NoResult EXCEPT !.insertedId = ins.id])

\* Collection.insertOne(doc)
InsertOne(c, mi, data, t, doc, genId, readOk, pub) ==
  LET ld == EnsureLoaded(c, data, readOk)
      ins == InsertDocument(ld.c.documents, doc, genId) IN
  IF ~ld.ok THEN LoadFailed(c, mi, data, ld.events)
  ELSE IF ins.outcome # "ok" THEN Rejected(ld.c, mi, data, ins.outcome, ld.events)
  ELSE Commit([ld.c EXCEPT !.documents = ins.docs], Len(ins.docs), t, mi, data, pub,
              ld.events \o <<"validate", "mutate">>,
              [NoResult EXCEPT !.insertedId = ins.id])

\* the DocumentOperations method a single-document update goes through
DocumentUpdate(method, docs, id, u) ==
  CASE method = "operators" -> UpdateDocumentWithOperators(docs, id, u)
    [] method = "update" -> UpdateDocument(docs, id, u)
    [] OTHER -> ReplaceDocument(docs, id, u)

UpdateResult(matched, modified) ==
  [NoResult EXCEPT !.matchedCount = matched, !.modifiedCount = modified]

\* the id branch and the field branch shared by _updateOneWithOperators,
\* _updateOneWithReplacement and replaceOne; c is loaded
UpdateSingle(method, c, mi, data, t, filter, u, pub, events) ==
  LET found == FindByQuery(c.documents, filter)
      id == IF IsIdFilter(filter) THEN filter.id
            ELSE IF found = <<>> THEN NoId ELSE found[1]._id
      r == DocumentUpdate(method, c.documents, id, u) IN
  IF ~IsIdFilter(filter) /\ found = <<>>
    THEN Effect(c, mi, data, "ok", events, UpdateResult(0, 0))
  ELSE IF r.outcome # "ok"
    THEN Effect(c, mi, data, r.outcome, events, NoResult)
  ELSE IF r.modifiedCount > 0
    THEN Commit([c EXCEPT !.documents = r.docs], Undefined, t, mi, data, pub,
                events \o <<"mutate">>,
                UpdateResult(1, r.modifiedCount))
  ELSE Effect([c EXCEPT !.documents = r.docs], mi, data, "ok", events,
              UpdateResult(IF IsIdFilter(filter) THEN 0 ELSE 1, r.modifiedCount))

\* Collection._updateOneWithOperators(filter, update)
UpdateOneWithOperators(c, mi, data, t, filter, u, pub, events) ==
  UpdateSingle("operators", c, mi, data, t, filter, u, pub, events)

\* Collection._updateOneWithReplacement(filter, update)
UpdateOneWithReplacement(c, mi, data, t, filter, u, pub, events) ==
  UpdateSingle("update", c, mi, data, t, filter, u, pub, events)

\* Collection.updateOne(filterOrId, update)
UpdateOne(c, mi, data, t, filterOrId, u, readOk, pub) ==
  LET ld == EnsureLoaded(c, data, readOk)
      filter == NormaliseFilter(filterOrId)
      valid == /\ ValidateObjectNonEmpty(u)
               /\ filterOrId.kind # "string" => ValidateFilter(filter)
               /\ ValidateUpdateObject(u, "none") IN
  IF ~ld.ok THEN LoadFailed(c, mi, data, ld.events)
  ELSE IF ~valid THEN Rejected(ld.c, mi, data, "InvalidArgument", ld.events)
  ELSE IF HasOperators(u)
    THEN UpdateOneWithOperators(ld.c, mi, data, t, filter, u, pub,
                                ld.events \o <<"validate">>)
  ELSE UpdateOneWithReplacement(ld.c, mi, data, t, filter, u, pub,
                                ld.events \o <<"validate">>)

\* the loop of updateMany: updateDocumentWithOperators on each match in turn,
\* on this._documents itself; an exception leaves the loop at once
RECURSIVE UpdateEach(_, _, _)
UpdateEach(docs, matching, u) ==
  IF matching = <<>> THEN [outcome |-> "ok", docs |-> docs, modifiedCount |-> 0]
  ELSE LET r == UpdateDocumentWithOperators(docs, Head(matching)._id, u)
           rest == UpdateEach(r.docs, Tail(matching), u) IN
       IF r.outcome # "ok"
         THEN [outcome |-> r.outcome, docs |-> r.docs, modifiedCount |-> 0]
       ELSE [outcome |-> rest.outcome, docs |-> rest.docs,
             modifiedCount |-> r.modifiedCount + rest.modifiedCount]

\* updateMany that reports the documents it modified as matchedCount
UpdateMany_CountsModifiedAsMatched(c, mi, data, t, filter, u, readOk, pub) ==
  LET ld == EnsureLoaded(c, data, readOk)
      valid == /\ ValidateFilter(filter)
               /\ ValidateObjectNonEmpty(u)
               /\ ValidateUpdateObject(u, "requireOperators")
      matching == FindMultipleByQuery(ld.c.documents, filter)
      r == UpdateEach(ld.c.documents, matching, u) IN
  IF ~ld.ok THEN LoadFailed(c, mi, data, ld.events)
  ELSE IF ~valid THEN Rejected(ld.c, mi, data, "InvalidArgument", ld.events)
  ELSE IF r.modifiedCount > 0
    THEN Commit([ld.c EXCEPT !.documents = r.docs], Undefined, t, mi, data, pub,
                ld.events \o <<"validate", "mutate">>,
                UpdateResult(r.modifiedCount, r.modifiedCount))
  ELSE Effect([ld.c EXCEPT !.documents = r.docs], mi, data, "ok",
              ld.events \o <<"validate">>, UpdateResult(0, 0))

\* updateMany that updates the metadata and marks dirty whenever it matched
UpdateMany_BumpsOnMatch(c, mi, data, t, filter, u, readOk, pub) ==
  LET ld == EnsureLoaded(c, data, readOk)
      valid == /\ ValidateFilter(filter)
               /\ ValidateObjectNonEmpty(u)
               /\ ValidateUpdateObject(u, "requireOperators")
      matching == FindMultipleByQuery(ld.c.documents, filter)
      r == UpdateEach(ld.c.documents, matching, u) IN
  IF ~ld.ok THEN LoadFailed(c, mi, data, ld.events)
  ELSE IF ~valid THEN Rejected(ld.c, mi, data, "InvalidArgument", ld.events)
  ELSE IF Len(matching) = 0
    THEN Effect(ld.c, mi, data, "ok", ld.events \o <<"validate">>, UpdateResult(0, 0))
  ELSE Commit([ld.c EXCEPT !.documents = r.docs], Undefined, t, mi, data, pub,
              ld.events \o <<"validate", "mutate">>,
              UpdateResult(Len(matching), r.modifiedCount))

\* Collection.updateMany(filter, update)
UpdateMany(c, mi, data, t, filter, u, readOk, pub) ==
  LET ld == EnsureLoaded(c, data, readOk)
      valid == /\ ValidateFilter(filter)
               /\ ValidateObjectNonEmpty(u)
               /\ ValidateUpdateObject(u, "requireOperators")
      matching == FindMultipleByQuery(ld.c.documents, filter)
      r == UpdateEach(ld.c.documents, matching, u) IN
  IF ~ld.ok THEN LoadFailed(c, mi, data, ld.events)
  ELSE IF ~valid THEN Rejected(ld.c, mi, data, "InvalidArgument", ld.events)
  ELSE IF Len(matching) = 0
    THEN Effect(ld.c, mi, data, "ok", ld.events \o <<"validate">>, UpdateResult(0, 0))
  ELSE IF r.outcome # "ok"
    THEN Effect([ld.c EXCEPT !.documents = r.docs], mi, data, r.outcome,
                ld.events \o <<"validate">>
                  \o (IF r.docs # ld.c.documents THEN <<"mutate">> ELSE <<>>),
                NoResult)
  ELSE IF r.modifiedCount > 0
    THEN Commit([ld.c EXCEPT !.documents = r.docs], Undefined, t, mi, data, pub,
                ld.events \o <<"validate", "mutate">>,
                UpdateResult(Len(matching), r.modifiedCount))
  ELSE Effect([ld.c EXCEPT !.documents = r.docs], mi, data, "ok",
              ld.events \o <<"validate">>, UpdateResult(Len(matching), 0))

\* Collection.replaceOne(filterOrId, doc)
ReplaceOne(c, mi, data, t, filterOrId, u, readOk, pub) ==
  LET ld == EnsureLoaded(c, data, readOk)
      filter == NormaliseFilter(filterOrId)
      valid == /\ ValidateObjectNonEmpty(u)
               /\ ValidateUpdateObject(u, "forbidOperators")
               /\ filterOrId.kind # "string" => ValidateFilter(filter) IN
  IF ~ld.ok THEN LoadFailed(c, mi, data, ld.events)
  ELSE IF ~valid THEN Rejected(ld.c, mi, data, "InvalidArgument", ld.events)
  ELSE UpdateSingle("replace", ld.c, mi, data, t, filter, u, pub,
                    ld.events \o <<"validate">>)

\* deleteOne that removes, for the empty filter, the last document
DeleteOne_EmptyFilterRemovesLast(c, mi, data, t, filter, readOk, pub) ==
  LET ld == EnsureLoaded(c, data, readOk)
      docs == ld.c.documents
      found == IF filter.kind = "empty"
                 THEN (IF docs = <<>> THEN <<>> ELSE <<FindAllDocuments(docs)[Len(docs)]>>)
                 ELSE FindByQuery(docs, filter)
      id == IF IsIdFilter(filter) THEN filter.id
            ELSE IF found = <<>> THEN NoId ELSE found[1]._id
      r == DeleteDocument(docs, id) IN
  IF ~ld.ok THEN LoadFailed(c, mi, data, ld.events)
  ELSE IF ~ValidateFilter(filter)
    THEN Rejected(ld.c, mi, data, "InvalidArgument", ld.events)
  ELSE IF (~IsIdFilter(filter) /\ found = <<>>) \/ r.deletedCount = 0
    THEN Effect(ld.c, mi, data, "ok", ld.events \o <<"validate">>,
                [NoResult EXCEPT !.deletedCount = 0])
  ELSE Commit([ld.c EXCEPT !.documents = r.docs], Len(r.docs), t, mi, data, pub,
              ld.events \o <<"validate", "mutate">>,
              [NoResult EXCEPT !.deletedCount = r.deletedCount])

\* Collection.deleteOne(filter)
DeleteOne(c, mi, data, t, filter, readOk, pub) ==
  LET ld == EnsureLoaded(c, data, readOk)
      docs == ld.c.documents
      found == IF filter.kind = "empty"
                 THEN (IF docs = <<>> THEN <<>> ELSE <<FindAllDocuments(docs)[1]>>)
                 ELSE FindByQuery(docs, filter)
      id == IF IsIdFilter(filter) THEN filter.id
            ELSE IF found = <<>> THEN NoId ELSE found[1]._id
      r == DeleteDocument(docs, id) IN
  IF ~ld.ok THEN LoadFailed(c, mi, data, ld.events)
  ELSE IF ~ValidateFilter(filter)
    THEN Rejected(ld.c, mi, data, "InvalidArgument", ld.events)
  ELSE IF (~IsIdFilter(filter) /\ found = <<>>) \/ r.deletedCount = 0
    THEN Effect(ld.c, mi, data, "ok", ld.events \o <<"validate">>,
                [NoResult EXCEPT !.deletedCount = 0])
  ELSE Commit([ld.c EXCEPT !.documents = r.docs], Len(r.docs), t, mi, data, pub,
              ld.events \o <<"validate", "mutate">>,
              [NoResult EXCEPT !.deletedCount = r.deletedCount])

\* findOne that marks the collection dirty
FindOne_MarksDirty(c, mi, data, filter, readOk) ==
  LET ld == EnsureLoaded(c, data, readOk)
      found == FindByQuery(ld.c.documents, filter) IN
  IF ~ld.ok THEN LoadFailed(c, mi, data, ld.events)
  ELSE IF ~ValidateFilter(filter)
    THEN Rejected(ld.c, mi, data, "InvalidArgument", ld.events)
  ELSE Effect(MarkDirty(ld.c), mi, data, "ok", ld.events \o <<"validate", "markDirty">>,
              [NoResult EXCEPT !.returned = found])

\* Collection.findOne(filter)
FindOne(c, mi, data, filter, readOk) ==
  LET ld == EnsureLoaded(c, data, readOk)
      docs == ld.c.documents
      found == CASE filter.kind = "empty" ->
                      (IF docs = <<>> THEN <<>> ELSE <<FindAllDocuments(docs)[1]>>)
                 [] IsIdFilter(filter) -> FindDocumentById(docs, filter.id)
                 [] OTHER -> FindByQuery(docs, filter) IN
  IF ~ld.ok THEN LoadFailed(c, mi, data, ld.events)
  ELSE IF ~ValidateFilter(filter)
    THEN Rejected(ld.c, mi, data, "InvalidArgument", ld.events)
  ELSE Effect(ld.c, mi, data, "ok", ld.events \o <<"validate">>,
              [NoResult EXCEPT !.returned = found])

\* Collection.find(filter)
Find(c, mi, data, filter, readOk) ==
  LET ld == EnsureLoaded(c, data, readOk)
      docs == ld.c.documents
      found == IF filter.kind = "empty" THEN FindAllDocuments(docs)
               ELSE FindMultipleByQuery(docs, filter) IN
  IF ~ld.ok THEN LoadFailed(c, mi, data, ld.events)
  ELSE IF ~ValidateFilter(filter)
    THEN Rejected(ld.c, mi, data, "InvalidArgument", ld.events)
  ELSE Effect(ld.c, mi, data, "ok", ld.events \o <<"validate">>,
              [NoResult EXCEPT !.returned = found])

\* Collection.countDocuments(filter)
CountDocuments(c, mi, data, filter, readOk) ==
  LET ld == EnsureLoaded(c, data, readOk)
      docs == ld.c.documents
      n == IF filter.kind = "empty" THEN Len(docs)
           ELSE Len(FindMultipleByQuery(docs, filter)) IN
  IF ~ld.ok THEN LoadFailed(c, mi, data, ld.events)
  ELSE IF ~ValidateFilter(filter)
    THEN Rejected(ld.c, mi, data, "InvalidArgument", ld.events)
  ELSE Effect(ld.c, mi, data, "ok", ld.events \o <<"validate">>,
              [NoResult EXCEPT !.count = n])

\* this._name, given to the constructor
CollectionName == "c1"

\* Collection.getName()
GetName(c, mi, data) ==
  Effect(c, mi, data, "ok", <<>>, [NoResult EXCEPT !.returned = <<CollectionName>>])

\* Collection.isDirty()
IsDirty(c, mi, data) ==
  Effect(c, mi, data, "ok", <<>>, [NoResult EXCEPT !.returned = <<c.dirty>>])

\* Collection.getMetadata(): returns this._collectionMetadata itself
GetMetadata(c, mi, data, readOk) ==
  LET ld == EnsureLoaded(c, data, readOk) IN
  IF ~ld.ok THEN LoadFailed(c, mi, data, ld.events)
  ELSE Effect(ld.c, mi, data, "ok", ld.events,
              [NoResult EXCEPT !.returned = <<ld.c.metadata>>])

\* collection.deleteMany(filter): the class defines no such method, so the
\* call throws TypeError before any code of Collection runs
DeleteMany(c, mi, data, filter) ==
  Effect(c, mi, data, "TypeError", <<>>, NoResult)

\* save that writes the file whenever the collection is loaded
Save_IgnoresDirty(c, mi, data, writeOk) ==
  IF c.loaded THEN SaveData(c, mi, data, writeOk)
  ELSE Effect(c, mi, data, "ok", <<>>, NoResult)

\* Collection.save()
Save(c, mi, data, writeOk) ==
  IF c.loaded /\ c.dirty THEN SaveData(c, mi, data, writeOk)
  ELSE Effect(c, mi, data, "ok", <<>>, NoResult)

\* ---- LockService: the per-collection application lock ----
\* the collection names locks are taken on
Collections == {"c1", "c2"}

\* the operationIds of the operations that take locks
OperationIds == {"op1", "op2"}

\* the timeouts given to acquireCollectionLock, in clock units
Timeouts == {0, 1, 2}

\* the minimum enforced timeout
MinimumTimeout == 1

\* no entry for the collection in the locks of the master index
NoLock == [operationId |-> "", acquiredAt |-> 0, expiresAt |-> 0]

LockEntry(op, t, timeout) ==
  [operationId |-> op, acquiredAt |-> t, expiresAt |-> t + timeout]

\* timeouts below the minimum are clamped
ClampTimeout(timeout) == IF timeout < MinimumTimeout THEN MinimumTimeout ELSE timeout

\* expiry that leaves an entry in force at the instant of its expiresAt
IsExpired_StrictlyBefore(entry, t) == entry.expiresAt < t

\* an entry whose expiresAt is at or before the clock is treated as absent
IsExpired(entry, t) == entry.expiresAt <= t

\* isCollectionLocked(name)
IsCollectionLocked(entries, name, t) ==
  entries[name] # NoLock /\ ~IsExpired(entries[name], t)

\* acquireCollectionLock that writes its entry whatever entry exists
AcquireCollectionLock_Overwrites(entries, name, op, timeout, t) ==
  [locks |-> [entries EXCEPT ![name] = LockEntry(op, t, ClampTimeout(timeout))],
   returned |-> TRUE]

\* acquireCollectionLock(name, operationId, timeout), under the process-wide
\* lock: rejected while a non-expired entry of another operationId exists
AcquireCollectionLock(entries, name, op, timeout, t) ==
  IF IsCollectionLocked(entries, name, t) /\ entries[name].operationId # op
    THEN [locks |-> entries, returned |-> FALSE]
    ELSE [locks |-> [entries EXCEPT ![name] = LockEntry(op, t, ClampTimeout(timeout))],
          returned |-> TRUE]

\* releaseCollectionLock that removes the entry whoever holds it
ReleaseCollectionLock_AnyOperation(entries, name, op) ==
  IF entries[name] # NoLock
    THEN [locks |-> [entries EXCEPT ![name] = NoLock], returned |-> TRUE]
    ELSE [locks |-> entries, returned |-> FALSE]

\* releaseCollectionLock(name, operationId): removes the entry of operationId
ReleaseCollectionLock(entries, name, op) ==
  IF entries[name] # NoLock /\ entries[name].operationId = op
    THEN [locks |-> [entries EXCEPT ![name] = NoLock], returned |-> TRUE]
    ELSE [locks |-> entries, returned |-> FALSE]

\* cleanupExpiredCollectionLocks()
CleanupExpiredCollectionLocks(entries, t) ==
  [name \in Collections |-> IF IsExpired(entries[name], t) THEN NoLock ELSE entries[name]]

\* ---- the state machine ----
InitialMetadata == [documentCount |-> 0, lastUpdated |-> 0, modificationToken |-> 0]

\* the arguments of a call: the filter (or string id), the update or
\* replacement, and the document; a method without one of them leaves it out
NoFilter == Filter("none", NoId, 0)

NoUpdate == Update("none", "", NoId, 0)

NoDoc == DocArg("none", NoId, 0)

Args(f, u, doc) == [filter |-> f, update |-> u, doc |-> doc]

\* lastCall while no call has returned a result the caller has yet to take
NoCall ==
  [inst |-> "", op |-> "", args |-> Args(NoFilter, NoUpdate, NoDoc), outcome |-> "",
   events |-> <<>>, result |-> NoResult]

\* new Collection(...) twice over a file that holds no document yet
Init ==
  /\ loaded = [i \in Instances |-> FALSE]
  /\ dirty = [i \in Instances |-> FALSE]
  /\ documents = [i \in Instances |-> <<>>]
  /\ metadata = [i \in Instances |-> NullMetadata]
  /\ blob = [documents |-> <<>>, metadata |-> InitialMetadata]
  /\ masterIndex = InitialMetadata
  /\ now = 0
  /\ stale = [i \in Instances |-> FALSE]
  /\ lastCall = NoCall
  /\ locks = [name \in Collections |-> NoLock]
  /\ granted = {}

\* the documents a call of instance i works on once _ensureLoaded has returned
DocumentsOnceLoaded(i) == IF loaded[i] THEN documents[i] ELSE DocumentsOf(blob)

\* the metadata a call of instance i works on once _ensureLoaded has returned
MetadataOnceLoaded(i) == IF loaded[i] THEN metadata[i] ELSE MetadataOf(blob)

\* the file was written by this call
Wrote(e) == e.outcome = "ok" /\ "write" \in Range(e.events)

\* no call is in progress and the caller holds no result: a call can be made
Idle == lastCall = NoCall

\* instance i makes the call op with arguments args, whose effect is e
Call(i, op, args, e) ==
  /\ loaded' = [loaded EXCEPT ![i] = e.c.loaded]
  /\ dirty' = [dirty EXCEPT ![i] = e.c.dirty]
  /\ documents' = [documents EXCEPT ![i] = e.c.documents]
  /\ metadata' = [metadata EXCEPT ![i] = e.c.metadata]
  /\ blob' = e.blob
  /\ masterIndex' = e.mi
  /\ stale' = [j \in Instances |->
                 IF Wrote(e) THEN j # i /\ loaded[j]
                 ELSE IF j = i /\ ~loaded[i] /\ e.c.loaded THEN FALSE
                 ELSE stale[j]]
  /\ lastCall' = [inst |-> i, op |-> op, args |-> args, outcome |-> e.outcome,
                  events |-> e.events, result |-> e.result]
  /\ UNCHANGED <<now, locks, granted>>

\* a failure of the master index is drawn only where the call reaches it
PublishOutcomesOf(e) ==
  IF "bump" \in Range(e.events) THEN PublishOutcomes ELSE {"ok"}

\* read failures are drawn only where the call reads the file
ReadOutcomes(i) == IF loaded[i] THEN {TRUE} ELSE BOOLEAN

\* $inc stays within Vals
WithinVals(i, u) ==
  u.op = "$inc" =>
    \A k \in 1..Len(DocumentsOnceLoaded(i)) :
       DocumentsOnceLoaded(i)[k].doc.n # NotANumber
         => DocumentsOnceLoaded(i)[k].doc.n + u.n \in Vals

\* the id of IdGenerator is drawn only for a document without _id, and is fresh
GeneratedIds(i, doc) ==
  IF doc.id = NoId THEN Ids \ Keys(DocumentsOnceLoaded(i)) ELSE {NoId}

CallInsertOne(i) ==
  /\ Idle
  /\ \E doc \in DocArgs, readOk \in ReadOutcomes(i) :
      \E genId \in GeneratedIds(i, doc) :
        \E pub \in PublishOutcomesOf(
                     InsertOne(CState(i), masterIndex, blob, now, doc, genId, readOk, "ok")) :
          Call(i, "insertOne", Args(NoFilter, NoUpdate, doc),
               InsertOne(CState(i), masterIndex, blob, now, doc, genId, readOk, pub))

CallUpdateOne(i) ==
  /\ Idle
  /\ \E f \in FiltersOrIds, u \in Updates, readOk \in ReadOutcomes(i) :
      /\ WithinVals(i, u)
      /\ \E pub \in PublishOutcomesOf(
                      UpdateOne(CState(i), masterIndex, blob, now, f, u, readOk, "ok")) :
           Call(i, "updateOne", Args(f, u, NoDoc),
                UpdateOne(CState(i), masterIndex, blob, now, f, u, readOk, pub))

CallUpdateMany(i) ==
  /\ Idle
  /\ \E f \in Filters, u \in UpdateManyUpdates, readOk \in ReadOutcomes(i) :
      /\ WithinVals(i, u)
      /\ \E pub \in PublishOutcomesOf(
                      UpdateMany(CState(i), masterIndex, blob, now, f, u, readOk, "ok")) :
           Call(i, "updateMany", Args(f, u, NoDoc),
                UpdateMany(CState(i), masterIndex, blob, now, f, u, readOk, pub))

CallReplaceOne(i) ==
  /\ Idle
  /\ \E f \in FiltersOrIds, u \in Replacements, readOk \in ReadOutcomes(i) :
      \E pub \in PublishOutcomesOf(
                   ReplaceOne(CState(i), masterIndex, blob, now, f, u, readOk, "ok")) :
        Call(i, "replaceOne", Args(f, u, NoDoc),
             ReplaceOne(CState(i), masterIndex, blob, now, f, u, readOk, pub))

CallDeleteOne(i) ==
  /\ Idle
  /\ \E f \in Filters, readOk \in ReadOutcomes(i) :
      \E pub \in PublishOutcomesOf(
                   DeleteOne(CState(i), masterIndex, blob, now, f, readOk, "ok")) :
        Call(i, "deleteOne", Args(f, NoUpdate, NoDoc),
             DeleteOne(CState(i), masterIndex, blob, now, f, readOk, pub))

CallFindOne(i) ==
  /\ Idle
  /\ \E f \in Filters, readOk \in ReadOutcomes(i) :
      Call(i, "findOne", Args(f, NoUpdate, NoDoc),
           FindOne(CState(i), masterIndex, blob, f, readOk))

CallFind(i) ==
  /\ Idle
  /\ \E f \in Filters, readOk \in ReadOutcomes(i) :
      Call(i, "find", Args(f, NoUpdate, NoDoc),
           Find(CState(i), masterIndex, blob, f, readOk))

CallCountDocuments(i) ==
  /\ Idle
  /\ \E f \in Filters, readOk \in ReadOutcomes(i) :
      Call(i, "countDocuments", Args(f, NoUpdate, NoDoc),
           CountDocuments(CState(i), masterIndex, blob, f, readOk))

CallGetName(i) ==
  /\ Idle
  /\ Call(i, "getName", Args(NoFilter, NoUpdate, NoDoc), GetName(CState(i), masterIndex, blob))

CallIsDirty(i) ==
  /\ Idle
  /\ Call(i, "isDirty", Args(NoFilter, NoUpdate, NoDoc), IsDirty(CState(i), masterIndex, blob))

CallGetMetadata(i) ==
  /\ Idle
  /\ \E readOk \in ReadOutcomes(i) :
      Call(i, "getMetadata", Args(NoFilter, NoUpdate, NoDoc),
           GetMetadata(CState(i), masterIndex, blob, readOk))

CallDeleteMany(i) ==
  /\ Idle
  /\ \E f \in Filters :
      Call(i, "deleteMany", Args(f, NoUpdate, NoDoc),
           DeleteMany(CState(i), masterIndex, blob, f))

CallSave(i) ==
  /\ Idle
  /\ \E writeOk \in BOOLEAN :
      Call(i, "save", Args(NoFilter, NoUpdate, NoDoc), Save(CState(i), masterIndex, blob, writeOk))

\* the caller has taken the result or the error of the call
Return ==
  /\ ~Idle
  /\ lastCall' = NoCall
  /\ UNCHANGED <<loaded, dirty, documents, metadata, blob, masterIndex, now, stale,
                 locks, granted>>

\* time passes between calls
Tick ==
  /\ Idle
  /\ now < MaxClock
  /\ now' = now + 1
  /\ UNCHANGED <<loaded, dirty, documents, metadata, blob, masterIndex, stale, lastCall,
                 locks, granted>>

\* one Collection instance, every public method
Next ==
  \/ CallInsertOne("A")
  \/ CallUpdateOne("A")
  \/ CallUpdateMany("A")
  \/ CallReplaceOne("A")
  \/ CallDeleteOne("A")
  \/ CallFindOne("A")
  \/ CallFind("A")
  \/ CallCountDocuments("A")
  \/ CallGetName("A")
  \/ CallIsDirty("A")
  \/ CallGetMetadata("A")
  \/ CallDeleteMany("A")
  \/ CallSave("A")
  \/ Return
  \/ Tick

Spec == Init /\ [][Next]_vars

\* ---- two instances over the same file and master index ----
\* each instance inserts {_id: x, n: 0}, deletes by _id, counts and saves
SharedInsertOne(i) ==
  /\ Idle
  /\ \E x \in Ids, pub \in PublishOutcomes :
       Call(i, "insertOne", Args(NoFilter, NoUpdate, DocArg("object", x, 0)),
            InsertOne(CState(i), masterIndex, blob, now, DocArg("object", x, 0), NoId,
                      TRUE, pub))

SharedDeleteOne(i) ==
  /\ Idle
  /\ \E x \in Ids :
       Call(i, "deleteOne", Args(Filter("id", x, 0), NoUpdate, NoDoc),
            DeleteOne(CState(i), masterIndex, blob, now, Filter("id", x, 0), TRUE, "ok"))

SharedCountDocuments(i) ==
  /\ Idle
  /\ Call(i, "countDocuments", Args(Filter("empty", NoId, 0), NoUpdate, NoDoc),
          CountDocuments(CState(i), masterIndex, blob, Filter("empty", NoId, 0), TRUE))

SharedSave(i) ==
  /\ Idle
  /\ \E writeOk \in BOOLEAN :
       Call(i, "save", Args(NoFilter, NoUpdate, NoDoc), Save(CState(i), masterIndex, blob, writeOk))

NextShared ==
  \/ \E i \in Instances : SharedInsertOne(i)
  \/ \E i \in Instances : SharedDeleteOne(i)
  \/ \E i \in Instances : SharedCountDocuments(i)
  \/ \E i \in Instances : SharedSave(i)
  \/ Return

SpecShared == Init /\ [][NextShared]_vars

\* ---- updates of documents whose field holds no number ----
\* one instance inserts {_id: x, n: v}, v a number or a string
NonNumberInsertOne(i) ==
  /\ Idle
  /\ \E x \in Ids, v \in Vals \cup {NotANumber} :
       Call(i, "insertOne", Args(NoFilter, NoUpdate, DocArg("object", x, v)),
            InsertOne(CState(i), masterIndex, blob, now, DocArg("object", x, v), NoId,
                      TRUE, "ok"))

\* updateOne(x, {$inc: {n: 1}})
NonNumberUpdateOne(i) ==
  /\ Idle
  /\ \E x \in Ids :
       /\ WithinVals(i, Update("ops", "$inc", NoId, 1))
       /\ Call(i, "updateOne", Args(Filter("string", x, 0), Update("ops", "$inc", NoId, 1), NoDoc),
               UpdateOne(CState(i), masterIndex, blob, now, Filter("string", x, 0),
                         Update("ops", "$inc", NoId, 1), TRUE, "ok"))

\* updateMany(filter, {$inc: {n: 1}}) or updateMany(filter, {$set: {n: v}})
NonNumberUpdateMany(i) ==
  /\ Idle
  /\ \E f \in {Filter("empty", NoId, 0)} \cup {Filter("id", x, 0) : x \in Ids},
        u \in {Update("ops", "$inc", NoId, 1)} \cup {Update("ops", "$set", NoId, v) : v \in Vals} :
       /\ WithinVals(i, u)
       /\ Call(i, "updateMany", Args(f, u, NoDoc),
               UpdateMany(CState(i), masterIndex, blob, now, f, u, TRUE, "ok"))

NonNumberDeleteOne(i) ==
  /\ Idle
  /\ \E x \in Ids :
       Call(i, "deleteOne", Args(Filter("id", x, 0), NoUpdate, NoDoc),
            DeleteOne(CState(i), masterIndex, blob, now, Filter("id", x, 0), TRUE, "ok"))

NextNonNumber ==
  \/ NonNumberInsertOne("A")
  \/ NonNumberUpdateOne("A")
  \/ NonNumberUpdateMany("A")
  \/ NonNumberDeleteOne("A")
  \/ CallSave("A")
  \/ Return

SpecNonNumber == Init /\ [][NextNonNumber]_vars

\* ---- save() called again right after save() ----
\* the caller of a save() that has just ended calls save() again, with no
\* other call in between
SaveAgain(i) ==
  /\ lastCall.op = "save"
  /\ lastCall.inst = i
  /\ \E writeOk \in BOOLEAN :
      Call(i, "save", Args(NoFilter, NoUpdate, NoDoc), Save(CState(i), masterIndex, blob, writeOk))

\* one instance that inserts, updates, deletes, reads and saves
NextSave ==
  \/ CallInsertOne("A")
  \/ CallUpdateOne("A")
  \/ CallDeleteOne("A")
  \/ CallFindOne("A")
  \/ CallSave("A")
  \/ SaveAgain("A")
  \/ Return

SpecSave == Init /\ [][NextSave]_vars

\* ---- a file that does not hold a JSON object ----
\* new Collection(...) over a file that holds a collection, or a JSON array
InitLoad ==
  /\ loaded = [i \in Instances |-> FALSE]
  /\ dirty = [i \in Instances |-> FALSE]
  /\ documents = [i \in Instances |-> <<>>]
  /\ metadata = [i \in Instances |-> NullMetadata]
  /\ blob \in {[documents |-> <<>>, metadata |-> InitialMetadata], ArrayBlob}
  /\ masterIndex = InitialMetadata
  /\ now = 0
  /\ stale = [i \in Instances |-> FALSE]
  /\ lastCall = NoCall
  /\ locks = [name \in Collections |-> NoLock]
  /\ granted = {}

\* one instance that inserts, deletes, reads and saves
NextLoad ==
  \/ CallInsertOne("A")
  \/ CallDeleteOne("A")
  \/ CallFind("A")
  \/ CallCountDocuments("A")
  \/ CallSave("A")
  \/ Return

SpecLoad == InitLoad /\ [][NextLoad]_vars

\* ---- calls with a field-operator object on _id ----
\* the seven methods that take a filter, called with a filter of
\* IdOperatorFilters and an update or replacement that is valid
IdOperatorFind(i) ==
  /\ Idle
  /\ \E f \in IdOperatorFilters, readOk \in ReadOutcomes(i) :
      Call(i, "find", Args(f, NoUpdate, NoDoc),
           Find(CState(i), masterIndex, blob, f, readOk))

IdOperatorFindOne(i) ==
  /\ Idle
  /\ \E f \in IdOperatorFilters, readOk \in ReadOutcomes(i) :
      Call(i, "findOne", Args(f, NoUpdate, NoDoc),
           FindOne(CState(i), masterIndex, blob, f, readOk))

IdOperatorCountDocuments(i) ==
  /\ Idle
  /\ \E f \in IdOperatorFilters, readOk \in ReadOutcomes(i) :
      Call(i, "countDocuments", Args(f, NoUpdate, NoDoc),
           CountDocuments(CState(i), masterIndex, blob, f, readOk))

IdOperatorDeleteOne(i) ==
  /\ Idle
  /\ \E f \in IdOperatorFilters, readOk \in ReadOutcomes(i) :
      \E pub \in PublishOutcomesOf(
                   DeleteOne(CState(i), masterIndex, blob, now, f, readOk, "ok")) :
        Call(i, "deleteOne", Args(f, NoUpdate, NoDoc),
             DeleteOne(CState(i), masterIndex, blob, now, f, readOk, pub))

IdOperatorUpdateOne(i) ==
  /\ Idle
  /\ \E f \in IdOperatorFilters, u \in {v \in Updates : v.kind = "ops"},
        readOk \in ReadOutcomes(i) :
      /\ WithinVals(i, u)
      /\ \E pub \in PublishOutcomesOf(
                      UpdateOne(CState(i), masterIndex, blob, now, f, u, readOk, "ok")) :
           Call(i, "updateOne", Args(f, u, NoDoc),
                UpdateOne(CState(i), masterIndex, blob, now, f, u, readOk, pub))

IdOperatorUpdateMany(i) ==
  /\ Idle
  /\ \E f \in IdOperatorFilters, u \in {v \in Updates : v.kind = "ops"},
        readOk \in ReadOutcomes(i) :
      /\ WithinVals(i, u)
      /\ \E pub \in PublishOutcomesOf(
                      UpdateMany(CState(i), masterIndex, blob, now, f, u, readOk, "ok")) :
           Call(i, "updateMany", Args(f, u, NoDoc),
                UpdateMany(CState(i), masterIndex, blob, now, f, u, readOk, pub))

IdOperatorReplaceOne(i) ==
  /\ Idle
  /\ \E f \in IdOperatorFilters, u \in {v \in Updates : v.kind = "plain"},
        readOk \in ReadOutcomes(i) :
      \E pub \in PublishOutcomesOf(
                   ReplaceOne(CState(i), masterIndex, blob, now, f, u, readOk, "ok")) :
        Call(i, "replaceOne", Args(f, u, NoDoc),
             ReplaceOne(CState(i), masterIndex, blob, now, f, u, readOk, pub))

\* one instance that inserts and saves, and is called with such filters
NextIdOperator ==
  \/ CallInsertOne("A")
  \/ CallSave("A")
  \/ IdOperatorFind("A")
  \/ IdOperatorFindOne("A")
  \/ IdOperatorCountDocuments("A")
  \/ IdOperatorDeleteOne("A")
  \/ IdOperatorUpdateOne("A")
  \/ IdOperatorUpdateMany("A")
  \/ IdOperatorReplaceOne("A")
  \/ Return

SpecIdOperator == Init /\ [][NextIdOperator]_vars

\* ---- the caller and the object getMetadata() returned ----
\* the caller of getMetadata() holds the CollectionMetadata object of the
\* instance and calls setDocumentCount(n) on it
CallerSetsDocumentCount ==
  /\ lastCall.op = "getMetadata"
  /\ lastCall.outcome = "ok"
  /\ \E n \in 0..Cardinality(Ids) :
       /\ n # metadata[lastCall.inst].documentCount
       /\ metadata' = [metadata EXCEPT
                         ![lastCall.inst] = SetDocumentCount(metadata[lastCall.inst], n)]
  /\ lastCall' = [lastCall EXCEPT !.op = "setDocumentCount", !.result = NoResult]
  /\ UNCHANGED <<loaded, dirty, documents, blob, masterIndex, now, stale, locks, granted>>

\* two instances that insert, save and hand out their metadata
NextOwnership ==
  \/ \E i \in Instances : SharedInsertOne(i)
  \/ \E i \in Instances : SharedSave(i)
  \/ \E i \in Instances : CallGetMetadata(i)
  \/ CallerSetsDocumentCount
  \/ Return

SpecOwnership == Init /\ [][NextOwnership]_vars

\* ---- operations that take the per-collection lock ----
LockArgs(name, op, timeout) == [name |-> name, operationId |-> op, timeout |-> timeout]

\* a call of LockService: what it was, what it returned, and the locks and
\* the acquisitions it leaves
LockCall(method, args, outcome, returned, entries, grants) ==
  /\ locks' = entries
  /\ granted' = grants
  /\ lastCall' = [inst |-> "", op |-> method, args |-> args, outcome |-> outcome,
                  events |-> <<>>, result |-> [NoResult EXCEPT !.returned = returned]]
  /\ UNCHANGED <<loaded, dirty, documents, metadata, blob, masterIndex, now, stale>>

\* the acquisitions of operationId op on name
GrantsOf(name, op) == {g \in granted : g.name = name /\ g.operationId = op}

\* gotLock is whether the process-wide lock was acquired in time
CallAcquireCollectionLock ==
  /\ Idle
  /\ \E name \in Collections, op \in OperationIds, timeout \in Timeouts,
        gotLock \in BOOLEAN :
       LET r == AcquireCollectionLock(locks, name, op, timeout, now) IN
       IF ~gotLock
         THEN LockCall("acquireCollectionLock", LockArgs(name, op, timeout),
                       "LockTimeout", <<>>, locks, granted)
       ELSE LockCall("acquireCollectionLock", LockArgs(name, op, timeout), "ok",
                     <<r.returned>>, r.locks,
                     IF r.returned
                       THEN (granted \ GrantsOf(name, op))
                              \cup {[name |-> name, operationId |-> op,
                                     expiresAt |-> r.locks[name].expiresAt]}
                       ELSE granted)

CallReleaseCollectionLock ==
  /\ Idle
  /\ \E name \in Collections, op \in OperationIds, gotLock \in BOOLEAN :
       LET r == ReleaseCollectionLock(locks, name, op) IN
       IF ~gotLock
         THEN LockCall("releaseCollectionLock", LockArgs(name, op, 0),
                       "LockTimeout", <<>>, locks, granted)
       ELSE LockCall("releaseCollectionLock", LockArgs(name, op, 0), "ok",
                     <<r.returned>>, r.locks,
                     IF r.returned THEN granted \ GrantsOf(name, op) ELSE granted)

CallIsCollectionLocked ==
  /\ Idle
  /\ \E name \in Collections :
       LockCall("isCollectionLocked", LockArgs(name, "", 0), "ok",
                <<IsCollectionLocked(locks, name, now)>>, locks, granted)

CallCleanupExpiredCollectionLocks ==
  /\ Idle
  /\ LockCall("cleanupExpiredCollectionLocks", LockArgs("", "", 0), "ok", <<TRUE>>,
              CleanupExpiredCollectionLocks(locks, now), granted)

NextLock ==
  \/ CallAcquireCollectionLock
  \/ CallReleaseCollectionLock
  \/ CallIsCollectionLocked
  \/ CallCleanupExpiredCollectionLocks
  \/ Return
  \/ Tick

SpecLock == Init /\ [][NextLock]_vars

\* ---- claims ----

\* C1 (as claimed): an instance whose copy is older than the file (another
\* instance has written the file since this one read or wrote it) never
\* gets its documents into the file: its attempt to persist fails and the
\* file keeps what the other instance wrote.
C1_StaleWriterDoesNotOverwrite ==
  [][(Idle /\ ~Idle' /\ stale[lastCall'.inst]) => blob' = blob]_vars

\* the methods that change documents
Mutators == {"insertOne", "updateOne", "updateMany", "replaceOne", "deleteOne"}

\* the outcomes of a call that failed in the master index or in the file write
BackendFailures == {"LockTimeout", "BackendUnavailable", "OperationError"}

\* C2 (as claimed): a call that changes the documents map has acquired the
\* process-wide lock before the change, and every lock it acquired is released
\* when it exits.
C2_LockBeforeMutation ==
  "mutate" \in Range(lastCall.events) =>
    /\ Before(lastCall.events, "lock", "mutate")
    /\ Cardinality({k \in 1..Len(lastCall.events) : lastCall.events[k] = "lock"})
         = Cardinality({k \in 1..Len(lastCall.events) : lastCall.events[k] = "unlock"})

\* C3 (as claimed): when a mutating call that changed a document has returned
\* successfully, the file already holds the documents map of the instance.
C3_PersistedOnReturn ==
  (lastCall.op \in Mutators /\ lastCall.outcome = "ok"
     /\ "mutate" \in Range(lastCall.events))
    => /\ "write" \in Range(lastCall.events)
       /\ blob.documents = documents[lastCall.inst]

\* C4 (as claimed): a call that publishes metadata to the master index has
\* written the file before, and the entry it leaves in the master index is the
\* metadata the file holds.
C4_WriteBeforePublish ==
  [][(Idle /\ ~Idle' /\ "publish" \in Range(lastCall'.events))
       => /\ Before(lastCall'.events, "write", "publish")
          /\ masterIndex' = blob'.metadata]_vars

\* C5: between calls, after the lazy load, after a successful call and after
\* a failed one, documentCount of a loaded instance is the number of keys of
\* its documents map.
C5_DocumentCountIsSize ==
  \A i \in Instances :
    loaded[i] => metadata[i].documentCount = Cardinality(Keys(documents[i]))

\* C5 witness: a call that changed the number of documents failed in the
\* master index, and another one succeeded.
C5_Witness ==
  /\ lastCall.op \in {"insertOne", "deleteOne"}
  /\ lastCall.outcome \in {"LockTimeout", "BackendUnavailable"}
  /\ "mutate" \in Range(lastCall.events)
  /\ Len(documents[lastCall.inst]) = 2

\* C6: every stored document has an _id that is a non-empty string, is stored
\* under that _id, and no two entries share a key.
C6_IdIsKey ==
  \A i \in Instances :
    /\ \A k \in 1..Len(documents[i]) :
         /\ documents[i][k].doc._id = documents[i][k].key
         /\ documents[i][k].key \in Ids
    /\ Cardinality(Keys(documents[i])) = Len(documents[i])

\* C6 witness: a replacement that names an _id has changed one of two documents.
C6_Witness ==
  /\ lastCall.op \in {"updateOne", "replaceOne"}
  /\ lastCall.outcome = "ok"
  /\ lastCall.result.modifiedCount = 1
  /\ Len(documents[lastCall.inst]) = 2

C8_RejectedCallChangesNothing ==
  [][(Idle /\ lastCall'.outcome = "InvalidArgument")
       => UNCHANGED <<documents, metadata, dirty, blob, masterIndex>>]_vars

\* C9 (as claimed): a call rejected for its arguments on an instance that has
\* not loaded does not read the file and leaves the instance not loaded.
C9_ValidatedBeforeLoad ==
  [][(Idle /\ lastCall'.outcome = "InvalidArgument" /\ ~loaded[lastCall'.inst])
       => /\ "read" \notin Range(lastCall'.events)
          /\ ~loaded'[lastCall'.inst]]_vars

\* C10 (as claimed): when a mutating call fails in the master index publish,
\* the lock acquisition or the file write, the documents map and the metadata
\* of the instance are what they were before the call (as loaded).
C10_RolledBackOnBackendFailure ==
  [][(Idle /\ lastCall'.op \in Mutators /\ lastCall'.outcome \in BackendFailures
        /\ loaded'[lastCall'.inst])
       => /\ documents'[lastCall'.inst] = DocumentsOnceLoaded(lastCall'.inst)
          /\ metadata'[lastCall'.inst] = MetadataOnceLoaded(lastCall'.inst)]_vars

\* C11 (as claimed): updateOne and updateMany given an empty update, an update
\* mixing operators with plain fields, or an update of plain fields only are
\* rejected for their arguments and leave every document as it was.
C11_OnlyOperatorUpdates ==
  [][(Idle /\ lastCall'.op \in {"updateOne", "updateMany"}
        /\ lastCall'.args.update.kind \in {"emptyobj", "mixed", "plain"}
        /\ ValidateFilter(NormaliseFilter(lastCall'.args.filter))
        /\ loaded'[lastCall'.inst])
       => /\ lastCall'.outcome = "InvalidArgument"
          /\ documents'[lastCall'.inst] = DocumentsOnceLoaded(lastCall'.inst)]_vars

\* C12 (as claimed): updateOne and replaceOne return matchedCount 1 exactly
\* when a document matching the filter exists, whether or not the call
\* changed it, and however the target is addressed.
C12_MatchedCountIsMatch ==
  [][(Idle /\ lastCall'.op \in {"updateOne", "replaceOne"} /\ lastCall'.outcome = "ok")
       => lastCall'.result.matchedCount =
            IF \E k \in 1..Len(DocumentsOnceLoaded(lastCall'.inst)) :
                 Matches(DocumentsOnceLoaded(lastCall'.inst)[k].doc,
                         NormaliseFilter(lastCall'.args.filter))
              THEN 1 ELSE 0]_vars

\* C13 (as claimed): deleteMany(filter) with a valid filter on a loaded
\* collection succeeds, removes every document matching the filter, so that
\* none is left to count, and lowers documentCount by the number it removed.
C13_DeleteManyRemovesMatches ==
  [][(Idle /\ lastCall'.op = "deleteMany" /\ ValidateFilter(lastCall'.args.filter)
        /\ loaded[lastCall'.inst])
       => /\ lastCall'.outcome = "ok"
          /\ FindMultipleByQuery(documents'[lastCall'.inst], lastCall'.args.filter) = <<>>
          /\ lastCall'.result.deletedCount
               = Len(FindMultipleByQuery(documents[lastCall'.inst], lastCall'.args.filter))
          /\ metadata'[lastCall'.inst].documentCount
               = metadata[lastCall'.inst].documentCount - lastCall'.result.deletedCount]_vars

\* the public methods that begin with this._ensureLoaded()
LoadingMethods ==
  {"insertOne", "findOne", "find", "updateOne", "updateMany", "replaceOne",
   "deleteOne", "countDocuments", "getMetadata"}

\* C14: an instance that has not loaded holds nothing of the file; a call
\* reads the file exactly when it is a document method called on an instance
\* that has not loaded, and then once; a loaded instance stays loaded and
\* never reads the file again.
C14_LoadedOnce ==
  /\ [](\A i \in Instances :
          ~loaded[i] => documents[i] = <<>> /\ metadata[i] = NullMetadata)
  /\ [][(Idle /\ ~Idle')
          => /\ ("read" \in Range(lastCall'.events))
                  <=> (~loaded[lastCall'.inst] /\ lastCall'.op \in LoadingMethods)
             /\ Cardinality({k \in 1..Len(lastCall'.events) : lastCall'.events[k] = "read"}) <= 1
             /\ loaded[lastCall'.inst] => loaded'[lastCall'.inst]
             /\ loaded'[lastCall'.inst] /\ ~loaded[lastCall'.inst]
                  => "read" \in Range(lastCall'.events)]_vars

\* C14 witness: a document method has returned on an instance that was loaded
\* by an earlier call and holds unsaved changes, without reading the file.
C14_Witness ==
  /\ lastCall.op \in LoadingMethods
  /\ lastCall.outcome = "ok"
  /\ "read" \notin Range(lastCall.events)
  /\ loaded[lastCall.inst]
  /\ dirty[lastCall.inst]
  /\ blob.documents # documents[lastCall.inst]

\* C15: isDirty() is false on a Collection no call has been made on; it is
\* true when a call that changed the documents map has returned; once true it
\* stays true through every call but a save() that wrote the file; and it is
\* false when such a save() has returned.
C15_DirtyTracking ==
  /\ [](\A i \in Instances : ~loaded[i] => ~dirty[i])
  /\ [][(Idle /\ ~Idle')
          => /\ (lastCall'.outcome = "ok"
                   /\ documents'[lastCall'.inst] # DocumentsOnceLoaded(lastCall'.inst))
                  => dirty'[lastCall'.inst]
             /\ (dirty[lastCall'.inst] /\ ~Wrote(lastCall'))
                  => dirty'[lastCall'.inst]
             /\ (lastCall'.op = "save" /\ lastCall'.outcome = "ok")
                  => ~dirty'[lastCall'.inst]]_vars

\* C15 witness: a save() of an instance with unsaved changes has written the
\* file and left the instance clean.
C15_Witness ==
  /\ lastCall.op = "save"
  /\ lastCall.outcome = "ok"
  /\ "write" \in Range(lastCall.events)
  /\ ~dirty[lastCall.inst]
  /\ Len(documents[lastCall.inst]) = 1

C17_ExclusiveOwnership ==
  [][/\ (Idle /\ ~Idle')
          => /\ \A j \in Instances \ {lastCall'.inst} :
                  /\ documents'[j] = documents[j]
                  /\ metadata'[j] = metadata[j]
             /\ ~Wrote(lastCall') => blob' = blob
     /\ (~Idle /\ ~Idle')
          => UNCHANGED <<loaded, dirty, documents, metadata>>]_vars

\* C18: a successful updateOne, updateMany or replaceOne leaves the keys of
\* the documents map, their order and documentCount as they were, and every
\* document, the targeted one included, under the _id it had.
C18_IdsUnchangedByUpdate ==
  [][(Idle /\ lastCall'.op \in {"updateOne", "updateMany", "replaceOne"}
        /\ lastCall'.outcome = "ok")
       => /\ Len(documents'[lastCall'.inst]) = Len(DocumentsOnceLoaded(lastCall'.inst))
          /\ \A k \in 1..Len(documents'[lastCall'.inst]) :
               /\ documents'[lastCall'.inst][k].key
                    = DocumentsOnceLoaded(lastCall'.inst)[k].key
               /\ documents'[lastCall'.inst][k].doc._id
                    = DocumentsOnceLoaded(lastCall'.inst)[k].doc._id
          /\ metadata'[lastCall'.inst].documentCount
               = MetadataOnceLoaded(lastCall'.inst).documentCount]_vars

\* C18 witness: an updateMany has changed both documents of the collection.
C18_Witness ==
  /\ lastCall.op = "updateMany"
  /\ lastCall.outcome = "ok"
  /\ lastCall.result.modifiedCount = 2
  /\ Keys(documents[lastCall.inst]) = Ids

\* C19 (as claimed): a successful call that changed a document leaves the
\* instance, and the master index entry it published, with a
\* modificationToken different from the one the collection had before.
C19_FreshToken ==
  [][(Idle /\ lastCall'.op \in Mutators /\ lastCall'.outcome = "ok"
        /\ "mutate" \in Range(lastCall'.events))
       => /\ metadata'[lastCall'.inst].modificationToken
               # MetadataOnceLoaded(lastCall'.inst).modificationToken
          /\ masterIndex'.modificationToken
               = metadata'[lastCall'.inst].modificationToken]_vars

\* C20: the clock never goes back; lastUpdated of a loaded instance never
\* decreases, the lazy load gives the instance the lastUpdated of the file,
\* and a successful call that changed a document leaves lastUpdated at the
\* clock value of the call.
C20_LastUpdatedMonotonic ==
  [][now' >= now
       => /\ \A i \in Instances :
               /\ (loaded[i] /\ loaded'[i])
                    => metadata'[i].lastUpdated >= metadata[i].lastUpdated
               /\ (~loaded[i] /\ loaded'[i])
                    => metadata'[i].lastUpdated >= blob.metadata.lastUpdated
          /\ (Idle /\ lastCall'.op \in Mutators /\ lastCall'.outcome = "ok"
                /\ "mutate" \in Range(lastCall'.events))
               => metadata'[lastCall'.inst].lastUpdated = now]_vars

\* C20 witness: after the clock has moved, a call that changed a document has
\* returned and lastUpdated is the new clock value.
C20_Witness ==
  /\ lastCall.op \in Mutators
  /\ lastCall.outcome = "ok"
  /\ "mutate" \in Range(lastCall.events)
  /\ now = 1
  /\ metadata[lastCall.inst].lastUpdated = 1

\* C21: a findOne({_id: x}) that returned gives exactly what find({_id: x})
\* gives on the same collection state: the one document find returns, or
\* null when find returns none, which is when countDocuments({_id: x}) is 0.
C21_IdFastPathIsQueryPath ==
  [][(Idle /\ lastCall'.op = "findOne" /\ lastCall'.args.filter.kind = "id"
        /\ lastCall'.outcome = "ok")
       => LET i == lastCall'.inst
              c == [loaded |-> loaded'[i], dirty |-> dirty'[i],
                    documents |-> documents'[i], metadata |-> metadata'[i]]
              f == lastCall'.args.filter
              all == Find(c, masterIndex', blob', f, TRUE).result.returned
              n == CountDocuments(c, masterIndex', blob', f, TRUE).result.count IN
          /\ Len(all) <= 1
          /\ lastCall'.result.returned = all
          /\ n = Len(all)
          /\ (lastCall'.result.returned = <<>>) <=> (n = 0)]_vars

\* C21 witness: findOne({_id: x}) has returned the second of two documents.
C21_Witness ==
  /\ lastCall.op = "findOne"
  /\ lastCall.args.filter.kind = "id"
  /\ lastCall.outcome = "ok"
  /\ Len(documents[lastCall.inst]) = 2
  /\ lastCall.result.returned = <<documents[lastCall.inst][2].doc>>

\* C22: of the acquisitions of one collection that were granted and have
\* neither been released nor expired, all belong to one operationId; an
\* acquisition is rejected exactly when a non-expired entry of another
\* operationId exists for that collection, and then changes nothing; it
\* never touches the entry of another collection.
C22_CollectionLockExclusive ==
  /\ [](\A g, h \in granted :
          (g.name = h.name /\ g.expiresAt > now /\ h.expiresAt > now)
            => g.operationId = h.operationId)
  /\ [][(Idle /\ lastCall'.op = "acquireCollectionLock" /\ lastCall'.outcome = "ok")
          => LET a == lastCall'.args IN
             /\ (lastCall'.result.returned = <<FALSE>>)
                  <=> (/\ locks[a.name] # NoLock
                       /\ locks[a.name].expiresAt > now
                       /\ locks[a.name].operationId # a.operationId)
             /\ lastCall'.result.returned = <<FALSE>> => locks' = locks
             /\ lastCall'.result.returned = <<TRUE>>
                  => locks'[a.name].operationId = a.operationId
             /\ \A n \in Collections \ {a.name} : locks'[n] = locks[n]]_vars

\* C22 witness: an operation that holds the lock of one collection has been
\* refused the lock of the other, which another operation holds.
C22_Witness ==
  /\ lastCall.op = "acquireCollectionLock"
  /\ lastCall.result.returned = <<FALSE>>
  /\ \E n \in Collections \ {lastCall.args.name} :
       /\ locks[n].operationId = lastCall.args.operationId
       /\ locks[n].expiresAt > now

\* C23: releaseCollectionLock removes the entry exactly when its operationId
\* is the one of the entry; otherwise it returns false and leaves every
\* entry, with its operationId, acquiredAt and expiresAt, as it was.
C23_ReleaseOnlyByHolder ==
  [][(Idle /\ lastCall'.op = "releaseCollectionLock" /\ lastCall'.outcome = "ok")
       => LET a == lastCall'.args IN
          IF locks[a.name] # NoLock /\ locks[a.name].operationId = a.operationId
            THEN /\ lastCall'.result.returned = <<TRUE>>
                 /\ locks' = [locks EXCEPT ![a.name] = NoLock]
            ELSE /\ lastCall'.result.returned = <<FALSE>>
                 /\ locks' = locks]_vars

\* C23 witness: a release by an operation that is not the holder has been
\* refused, and the collection is still locked by the holder.
C23_Witness ==
  /\ lastCall.op = "releaseCollectionLock"
  /\ lastCall.result.returned = <<FALSE>>
  /\ locks[lastCall.args.name] # NoLock
  /\ locks[lastCall.args.name].operationId # lastCall.args.operationId
  /\ locks[lastCall.args.name].expiresAt > now

\* C24: isCollectionLocked reports true exactly for an entry whose expiresAt
\* is after the clock, and an acquisition made when the entry's expiresAt is
\* at or before the clock succeeds, whoever held it and with no release.
C24_ExpiredLockIsAbsent ==
  [][(Idle /\ ~Idle' /\ lastCall'.outcome = "ok")
       => LET a == lastCall'.args IN
          /\ lastCall'.op = "isCollectionLocked"
               => lastCall'.result.returned
                    = <<locks[a.name] # NoLock /\ locks[a.name].expiresAt > now>>
          /\ (lastCall'.op = "acquireCollectionLock" /\ locks[a.name].expiresAt <= now)
               => /\ lastCall'.result.returned = <<TRUE>>
                  /\ locks'[a.name].operationId = a.operationId]_vars

\* C24 witness: an operation has acquired the lock at the very instant the
\* lock another operation was granted, and never released, expired.
C24_Witness ==
  /\ lastCall.op = "acquireCollectionLock"
  /\ lastCall.result.returned = <<TRUE>>
  /\ \E g \in granted :
       /\ g.name = lastCall.args.name
       /\ g.operationId # lastCall.args.operationId
       /\ g.expiresAt = now

\* C25: after an insertOne that returned insertedId i, findOne({_id: i})
\* returns the inserted document, countDocuments({}) is one more than the
\* number of documents before the call, and every document stored before the
\* call is stored unchanged, in the same place.
C25_InsertedDocumentIsStored ==
  [][(Idle /\ lastCall'.op = "insertOne" /\ lastCall'.outcome = "ok")
       => LET i == lastCall'.inst
              c == [loaded |-> loaded'[i], dirty |-> dirty'[i],
                    documents |-> documents'[i], metadata |-> metadata'[i]]
              id == lastCall'.result.insertedId
              before == DocumentsOnceLoaded(i) IN
          /\ id \in Ids
          /\ FindOne(c, masterIndex', blob', Filter("id", id, 0), TRUE).result.returned
               = <<Doc(id, lastCall'.args.doc.n)>>
          /\ CountDocuments(c, masterIndex', blob', Filter("empty", NoId, 0), TRUE).result.count
               = Len(before) + 1
          /\ \A k \in 1..Len(before) : documents'[i][k] = before[k]]_vars

\* C25 witness: insertOne of a document without _id has returned a generated
\* id, and the collection holds a second document.
C25_Witness ==
  /\ lastCall.op = "insertOne"
  /\ lastCall.outcome = "ok"
  /\ lastCall.args.doc.id = NoId
  /\ lastCall.result.insertedId \in Ids
  /\ Len(documents[lastCall.inst]) = 2

\* the public methods that only read
ReadMethods == {"find", "findOne", "countDocuments", "getName", "getMetadata", "isDirty"}

\* C26: find, findOne, countDocuments, getName, getMetadata and isDirty on a
\* loaded instance, whether they return or are rejected, leave the documents
\* map, the metadata, the dirty flag, the master index entry and the file as
\* they were, and neither publish nor write.
C26_ReadsChangeNothing ==
  [][(Idle /\ lastCall'.op \in ReadMethods /\ loaded[lastCall'.inst])
       => /\ UNCHANGED <<loaded, documents, metadata, dirty, masterIndex, blob>>
          /\ Range(lastCall'.events) \cap {"mutate", "bump", "publish", "markDirty", "write"}
               = {}]_vars

\* C26 witness: find({}) on a loaded instance with unsaved changes has
\* returned both documents.
C26_Witness ==
  /\ lastCall.op = "find"
  /\ lastCall.outcome = "ok"
  /\ "read" \notin Range(lastCall.events)
  /\ Len(lastCall.result.returned) = 2
  /\ dirty[lastCall.inst]

\* C27: an updateOne, updateMany or replaceOne that returned modifiedCount 0,
\* or a deleteOne that returned deletedCount 0, has left the documents map,
\* the metadata (lastUpdated and documentCount), the dirty flag, the master
\* index entry and the file as they were, and has not published.
C27_NoChangeNoBump ==
  [][(Idle /\ lastCall'.outcome = "ok"
        /\ \/ /\ lastCall'.op \in {"updateOne", "updateMany", "replaceOne"}
              /\ lastCall'.result.modifiedCount = 0
           \/ /\ lastCall'.op = "deleteOne"
              /\ lastCall'.result.deletedCount = 0)
       => /\ documents'[lastCall'.inst] = DocumentsOnceLoaded(lastCall'.inst)
          /\ metadata'[lastCall'.inst] = MetadataOnceLoaded(lastCall'.inst)
          /\ UNCHANGED <<dirty, masterIndex, blob>>
          /\ Range(lastCall'.events) \cap {"mutate", "bump", "publish", "markDirty", "write"}
               = {}]_vars

\* C27 witness: after the clock has moved, an updateMany that matched both
\* documents and changed neither has returned on a clean instance.
C27_Witness ==
  /\ lastCall.op = "updateMany"
  /\ lastCall.outcome = "ok"
  /\ lastCall.result.matchedCount = 2
  /\ lastCall.result.modifiedCount = 0
  /\ ~dirty[lastCall.inst]
  /\ now > metadata[lastCall.inst].lastUpdated

\* C28 (as claimed): whenever no call is in progress, after a call that
\* threw included, a loaded instance whose dirty flag is false holds the
\* documents of the file as it last read or wrote it (one instance: the file
\* is read and written by this instance only).
C28_CleanMeansSaved ==
  \A i \in Instances :
    (loaded[i] /\ ~dirty[i]) => documents[i] = blob.documents

\* C29 (as claimed): an updateMany that fails while applying the update to
\* one of the matched documents leaves every document of the collection as
\* it was before the call.
C29_UpdateManyAllOrNothing ==
  [][(Idle /\ lastCall'.op = "updateMany" /\ lastCall'.outcome = "InvalidUpdate")
       => documents'[lastCall'.inst] = DocumentsOnceLoaded(lastCall'.inst)]_vars

\* the number of times step x occurs in the steps s of a call
Count(s, x) == Cardinality({k \in 1..Len(s) : s[k] = x})

C31_DeleteOneRemovesAtMostOne ==
  [][(Idle /\ lastCall'.op = "deleteOne" /\ lastCall'.outcome = "ok")
       => LET i == lastCall'.inst
              before == DocumentsOnceLoaded(i)
              after == documents'[i]
              n == lastCall'.result.deletedCount
              gone == {k \in 1..Len(before) : before[k].key \notin Keys(after)}
              first == FindOne(CState(i), masterIndex, blob, Filter("empty", NoId, 0), TRUE) IN
          /\ n \in {0, 1}
          /\ Len(after) = Len(before) - n
          /\ metadata'[i].documentCount = MetadataOnceLoaded(i).documentCount - n
          /\ Cardinality(gone) = n
          /\ after = SelectSeq(before, LAMBDA e : e.key \in Keys(after))
          /\ (lastCall'.args.filter.kind = "empty" /\ before # <<>>)
               => /\ n = 1
                  /\ \A k \in gone : <<before[k].doc>> = first.result.returned]_vars

\* C31 witness: deleteOne({}) on a collection of two documents has removed one.
C31_Witness ==
  /\ lastCall.op = "deleteOne"
  /\ lastCall.outcome = "ok"
  /\ lastCall.args.filter.kind = "empty"
  /\ lastCall.result.deletedCount = 1
  /\ Len(documents[lastCall.inst]) = 1

\* C32: a save() on a Collection that is not loaded or not dirty writes
\* nothing to the file and changes nothing; and of two save() calls made one
\* right after the other, at most one writes the file.
C32_SaveWritesOnlyDirtyState ==
  /\ [][(lastCall'.op = "save" /\ lastCall' # lastCall
           /\ ~(loaded[lastCall'.inst] /\ dirty[lastCall'.inst]))
          => /\ lastCall'.outcome = "ok"
             /\ "write" \notin Range(lastCall'.events)
             /\ UNCHANGED <<loaded, dirty, documents, metadata, blob, masterIndex>>]_vars
  /\ [][(lastCall.op = "save" /\ lastCall'.op = "save")
          => ~(Wrote(lastCall) /\ Wrote(lastCall'))]_vars

\* C32 witness: a save() has written the file and the save() called right
\* after it has returned without a write.
C32_Witness ==
  /\ lastCall.op = "save"
  /\ lastCall.outcome = "ok"
  /\ lastCall.events = <<>>
  /\ loaded[lastCall.inst]
  /\ ~dirty[lastCall.inst]
  /\ blob.documents # <<>>
  /\ blob.documents = documents[lastCall.inst]

\* C33: a save() whose write of the file fails ends with OperationError, and
\* leaves the collection loaded and dirty and its documents, its metadata,
\* the file and the master index as they were; the save() called right after
\* it attempts the write again.
C33_FailedSaveStaysDirty ==
  /\ [][(lastCall'.op = "save" /\ lastCall'.outcome # "ok")
          => /\ lastCall'.outcome = "OperationError"
             /\ lastCall'.events = <<"write">>
             /\ loaded'[lastCall'.inst] /\ dirty'[lastCall'.inst]
             /\ UNCHANGED <<loaded, dirty, documents, metadata, blob, masterIndex>>]_vars
  /\ [][(lastCall.op = "save" /\ lastCall.outcome = "OperationError"
           /\ lastCall'.op = "save")
          => "write" \in Range(lastCall'.events)]_vars

\* C33 witness: a save() has failed on a collection whose documents are not
\* in the file, and the collection is still dirty.
C33_Witness ==
  /\ lastCall.op = "save"
  /\ lastCall.outcome = "OperationError"
  /\ dirty[lastCall.inst]
  /\ documents[lastCall.inst] # blob.documents

\* C34 (as claimed): a call that begins with _ensureLoaded on an instance
\* that has not loaded reads the file first; when the read fails, or the file
\* does not hold a JSON object, the call ends with OperationError after the
\* read alone and the instance stays not loaded with nothing changed; and a
\* call validates, queries or mutates only on an instance that has loaded.
C34_FailedLoadStaysUnloaded ==
  [][(Idle /\ lastCall'.op \in LoadingMethods /\ ~loaded[lastCall'.inst])
       => LET i == lastCall'.inst IN
          /\ lastCall'.events # <<>> /\ Head(lastCall'.events) = "read"
          /\ blob = ArrayBlob => lastCall'.outcome = "OperationError"
          /\ ~loaded'[i]
               => /\ lastCall'.outcome = "OperationError"
                  /\ lastCall'.events = <<"read">>
                  /\ UNCHANGED <<dirty, documents, metadata, blob, masterIndex>>
          /\ loaded'[i] \/ Range(lastCall'.events) = {"read"}]_vars

\* the methods that take a filter
FilterMethods ==
  {"find", "findOne", "countDocuments", "deleteOne", "updateOne", "updateMany",
   "replaceOne"}

\* C35 (as claimed): a call of a method that takes a filter, with a filter
\* that puts a field-operator object on _id, alone or with another key, and
\* otherwise valid arguments, is not rejected for its arguments; find returns
\* the documents the query engine matches, findOne the first of them and
\* countDocuments their number.
C35_IdOperatorFilterAccepted ==
  [][(Idle /\ lastCall'.op \in FilterMethods
        /\ lastCall'.args.filter.kind \in IdOperatorKinds)
       => LET i == lastCall'.inst
              f == lastCall'.args.filter
              matching == SelectSeq(Values(DocumentsOnceLoaded(i)),
                                    LAMBDA d : Matches(d, f)) IN
          /\ lastCall'.outcome # "InvalidArgument"
          /\ (lastCall'.outcome = "ok" /\ lastCall'.op = "find")
               => lastCall'.result.returned = matching
          /\ (lastCall'.outcome = "ok" /\ lastCall'.op = "findOne")
               => lastCall'.result.returned = SubSeq(matching, 1, 1)
          /\ (lastCall'.outcome = "ok" /\ lastCall'.op = "countDocuments")
               => lastCall'.result.count = Len(matching)]_vars

====
